---- MODULE Spec2Model ----
(***************************************************************************)
(* Model of src/tool/token.c: the token count estimator.                   *)
(*                                                                         *)
(* A text is a sequence of one-character strings.  Positions are 0-based   *)
(* as in the C source; At(str, idx) is the C expression str[idx].          *)
(* Every loop of the source is unrolled into one action per iteration, so  *)
(* that each read of the text and each change of a counter is a step.      *)
(***************************************************************************)
EXTENDS Integers, Sequences, FiniteSets, TLC

----------------------------------------------------------------------------
(* <ctype.h> in the "C" locale, for 7-bit ASCII characters.                *)

Lower == {"a", "b", "c", "d", "e", "f", "g", "h", "i", "j", "k", "l", "m",
          "n", "o", "p", "q", "r", "s", "t", "u", "v", "w", "x", "y", "z"}

Upper == {"A", "B", "C", "D", "E", "F", "G", "H", "I", "J", "K", "L", "M",
          "N", "O", "P", "Q", "R", "S", "T", "U", "V", "W", "X", "Y", "Z"}

Digit == {"0", "1", "2", "3", "4", "5", "6", "7", "8", "9"}

\* space, \t, \n, \r, \f (the vertical tab has no TLA+ escape and is left out)
Space == {" ", "\t", "\n", "\r", "\f"}

\* ASCII punctuation (the backquote cannot be written in a TLA+ string and
\* is left out)
Punct == {"!", "\"", "#", "$", "%", "&", "'", "(", ")", "*", "+", ",", "-",
          ".", "/", ":", ";", "<", "=", ">", "?", "@", "[", "\\", "]", "^",
          "_", "{", "|", "}", "~"}

isspace(c) == c \in Space
isalpha(c) == c \in Lower \cup Upper
isdigit(c) == c \in Digit
isalnum(c) == isalpha(c) \/ isdigit(c)
ispunct(c) == c \in Punct

\* The terminating zero byte of a C string.
NUL == "NUL"

strlen(str) == Len(str)

\* str[idx] for a C string: the characters, then the terminator.
At(str, idx) == IF idx < Len(str) THEN str[idx + 1] ELSE NUL

----------------------------------------------------------------------------
(* is_code_pattern                                                         *)

patterns ==
    << <<"-", ">">>, <<"+", "+">>, <<"-", "-">>, <<"=", "=">>, <<"!", "=">>,
       <<"<", "=">>, <<">", "=">>, <<"&", "&">>, <<"|", "|">>,
       <<"<", "<">>, <<">", ">">>, <<"+", "=">>, <<"-", "=">>, <<"*", "=">>,
       <<"/", "=">>, <<"%", "=">>, <<"^", "=">>, <<"&", "=">>, <<"|", "=">>,
       <<":", ":">>, <<"/", "/">>, <<"/", "*">>, <<"*", "/">>,
       <<"/", "*", "*">>, <<"{">>, <<"}">>, <<"[">>, <<"]">>, <<"(">>,
       <<")">>, <<";">> >>

num_patterns == Len(patterns)

\* strncmp(str + pos, pat, n) == 0, for a pattern of length n.
strncmp_eq(str, pos, pat, n) ==
    \A k \in 0..(n - 1) : At(str, pos + k) = pat[k + 1]

\* The indices of str that strncmp(str + pos, pat, n) reads: it compares
\* character by character and stops at the first difference.
strncmp_reads(str, pos, pat, n) ==
    { pos + k : k \in { m \in 0..(n - 1) :
                          \A j \in 0..(m - 1) : At(str, pos + j) = pat[j + 1] } }

\* The loop of is_code_pattern from table entry k (1-based) on.
RECURSIVE pattern_loop(_, _, _, _)
pattern_loop(str, pos, len, k) ==
    IF k > num_patterns THEN 0
    ELSE LET pattern_len == Len(patterns[k])
         IN  IF pos + pattern_len <= len
                /\ strncmp_eq(str, pos, patterns[k], pattern_len)
             THEN pattern_len
             ELSE pattern_loop(str, pos, len, k + 1)

\* A matcher that prefers the longest matching entry over the first one.
is_code_pattern_longest(str, pos, len) ==
    LET fit == { k \in 1..num_patterns :
                   /\ pos + Len(patterns[k]) <= len
                   /\ strncmp_eq(str, pos, patterns[k], Len(patterns[k])) }
    IN  IF fit = {} THEN 0
        ELSE CHOOSE n \in { Len(patterns[k]) : k \in fit } :
                 \A k \in fit : Len(patterns[k]) <= n

is_code_pattern(str, pos, len) == pattern_loop(str, pos, len, 1)

\* The indices of str read by the call is_code_pattern(str, pos, len): every
\* entry up to the one that returns is tested, and strncmp runs only where
\* the length guard holds.
RECURSIVE pattern_reads(_, _, _, _)
pattern_reads(str, pos, len, k) ==
    IF k > num_patterns THEN {}
    ELSE LET pattern_len == Len(patterns[k])
         IN  IF pos + pattern_len <= len
             THEN strncmp_reads(str, pos, patterns[k], pattern_len)
                  \cup (IF strncmp_eq(str, pos, patterns[k], pattern_len)
                        THEN {}
                        ELSE pattern_reads(str, pos, len, k + 1))
             ELSE pattern_reads(str, pos, len, k + 1)

----------------------------------------------------------------------------
(* Input texts.                                                            *)

MaxLen == 3         \* longest text over Alphabet
MaxWordLen == 9     \* longest run of letters in a LongWords text
MaxStrLen == 4      \* longest text over StringAlphabet
MaxCodeLen == 4     \* longest text over CodeAlphabet
MaxCI == 3          \* most semicolons in a CodeProse text
MaxWords == 21      \* most words in a CodeProse text

Alphabet == {" ", "a", "1", ".", "\"", "\\", "/", "*"}
WordAlphabet == {"a", "1", "_", "."}
StringAlphabet == {"a", "\"", "'", "\\"}
CodeAlphabet == {"a", "(", ";", " "}

Strings(A, n) == UNION { [1..k -> A] : k \in 0..n }

Rep(c, n) == [k \in 1..n |-> c]

\* A run of n letters, with at most one character before and after it.
LongWords ==
    { h \o Rep("a", n) \o t :
        h \in Strings(WordAlphabet, 1), t \in Strings(WordAlphabet, 1),
        n \in 0..MaxWordLen }

\* ci semicolons, then wc one-letter words, each followed by a space.
CodeProse(ci, wc) ==
    [k \in 1..(2 * (ci + wc)) |->
        IF k % 2 = 0 THEN " " ELSE IF k <= 2 * ci THEN ";" ELSE "a"]

QuitLine == <<"q", "u", "i", "t">>

\* 90 letters and 10 punctuation marks: 100 characters.
Hundred == Rep("a", 90) \o Rep(".", 10)

Samples ==
    { <<"(", ")">>,
      <<"h", "e", "l", "l", "o">>,
      <<"a", "b", "c", "d", "e", "f", "g", "h", "i", "j">>,
      <<"\"", "H", "e", "l", "l", "o", "\\", "n", "\"", ")", ";">>,
      <<"3", ".", "1", "4", ".", "1", "5">>,
      <<"/", "*", "*", " ", "x", "_", "1", " ", "*", "/">>,
      QuitLine,
      Hundred }

Inputs ==
    Strings(Alphabet, MaxLen)
    \cup LongWords
    \cup Strings(StringAlphabet, MaxStrLen)
    \cup Strings(CodeAlphabet, MaxCodeLen)
    \cup { CodeProse(ci, wc) : ci \in 0..MaxCI, wc \in 0..MaxWords }
    \cup Samples

----------------------------------------------------------------------------
VARIABLES
    text,            \* the string the functions are called on
    pc,              \* the statement about to run
    stack,           \* return addresses of the calls in progress
    \* estimate_tokens
    stats,           \* TokenStats stats
    i,               \* int i
    pattern_len,     \* int pattern_len
    word_start,      \* int word_start
    word_len,        \* int word_len
    quote,           \* char quote
    string_chars,    \* int string_chars
    iter_i,          \* value of i when the current main-loop iteration began
    maxread,         \* highest index of text read by estimate_tokens, or -1
    \* estimate_tokens_advanced
    basic,           \* TokenStats basic
    multiplier,      \* float multiplier, in hundredths
    code_indicators, \* int code_indicators
    adv_i,           \* int i of the for loop
    \* quick_token_estimate
    punct_count,     \* int punct_count
    q_i,             \* int i of the for loop
    retval,          \* the int returned by the last call that returns an int
    \* print_stats
    ps_stats,        \* TokenStats stats
    advanced,        \* int advanced
    quick,           \* int quick
    ratio            \* <<dividend, divisor>> of the printed ratio, <<>> before

vars == << text, pc, stack, stats, i, pattern_len, word_start, word_len, quote,
           string_chars, iter_i, maxread, basic, multiplier, code_indicators,
           adv_i, punct_count, q_i, retval, ps_stats, advanced, quick, ratio >>

et_vars  == << stats, i, pattern_len, word_start, word_len, quote,
               string_chars, iter_i, maxread >>
adv_vars == << basic, multiplier, code_indicators, adv_i >>
q_vars   == << punct_count, q_i >>
ps_vars  == << ps_stats, advanced, quick, ratio >>

\* int len = strlen(text)
len == strlen(text)

ZeroStats == [tokens |-> 0, words |-> 0, chars |-> 0]

\* return: control goes back to the caller.
Return == /\ pc' = Head(stack)
          /\ stack' = Tail(stack)

\* call: control enters the callee, to come back at `back`.
Call(entry, back) == /\ pc' = entry
                     /\ stack' = <<back>> \o stack


MaxOf(S) == CHOOSE m \in S : \A x \in S : x <= m

\* The estimator reads text at every index of S.
Reads(S) == maxread' = MaxOf(S \cup {maxread})

----------------------------------------------------------------------------
(* estimate_tokens                                                         *)

\* Statement labels of the scan loop and of its inner loops.
ScanPcs == {"et_loop", "et_ws", "et_match", "et_word", "et_num", "et_str"}

\* The stats as initialised with the character count left at zero.
StatsInitNoChars(n) == ZeroStats

\* TokenStats stats = {0, 0, 0}; stats.chars = len;
StatsInit(n) == [ZeroStats EXCEPT !.chars = n]

\* A band rule whose limits are exclusive.
word_tokens_exclusive(wl) ==
    IF wl < 4 THEN 1 ELSE IF wl < 8 THEN 2 ELSE (wl + 3) \div 4

\* A band rule that has lost its first band.
word_tokens_two_bands(wl) ==
    IF wl <= 8 THEN 2 ELSE (wl + 3) \div 4

\* The tokens a word of word_len characters adds.
word_tokens(wl) ==
    IF wl <= 4 THEN 1 ELSE IF wl <= 8 THEN 2 ELSE (wl + 3) \div 4

\* A content estimate that rounds down.
string_tokens_floor(sc) == sc \div 4

\* The tokens the content of a string literal adds.
string_tokens(sc) == (sc + 3) \div 4

\* An escape test without the bounds check.
is_escape_unchecked(str, idx, n) == At(str, idx) = "\\"

\* text[i] == '\\' && i + 1 < len
is_escape(str, idx, n) == At(str, idx) = "\\" /\ idx + 1 < n

EtEnter ==
    /\ pc = "et_entry"
    /\ stats' = StatsInit(len)
    /\ i' = 0
    /\ iter_i' = 0
    /\ maxread' = -1
    /\ pc' = "et_loop"
    /\ UNCHANGED << text, stack, pattern_len, word_start, word_len, quote,
                    string_chars, adv_vars, q_vars, retval, ps_vars >>

\* while (i < len) fails: return stats
EtLoopExit ==
    /\ pc = "et_loop"
    /\ ~(i < len)
    /\ Return
    /\ UNCHANGED << text, et_vars, adv_vars, q_vars, retval, ps_vars >>

\* if (isspace(c)): enter the inner whitespace loop
EtWhitespace ==
    /\ pc = "et_loop"
    /\ i < len
    /\ isspace(At(text, i))
    /\ Reads({i})
    /\ iter_i' = i
    /\ pc' = "et_ws"
    /\ UNCHANGED << text, stack, stats, i, pattern_len, word_start, word_len,
                    quote, string_chars, adv_vars, q_vars, retval, ps_vars >>

EtWsStep ==
    /\ pc = "et_ws"
    /\ i < len /\ isspace(At(text, i))
    /\ Reads({i})
    /\ i' = i + 1
    /\ UNCHANGED << text, pc, stack, stats, pattern_len, word_start, word_len,
                    quote, string_chars, iter_i, adv_vars, q_vars, retval,
                    ps_vars >>

EtWsEnd ==
    /\ pc = "et_ws"
    /\ ~(i < len /\ isspace(At(text, i)))
    /\ Reads(IF i < len THEN {i} ELSE {})
    /\ pc' = "et_loop"
    /\ UNCHANGED << text, stack, stats, i, pattern_len, word_start, word_len,
                    quote, string_chars, iter_i, adv_vars, q_vars, retval,
                    ps_vars >>

\* int pattern_len = is_code_pattern(text, i, len);
EtMatch ==
    /\ pc = "et_loop"
    /\ i < len
    /\ ~isspace(At(text, i))
    /\ pattern_len' = is_code_pattern(text, i, len)
    /\ Reads({i} \cup pattern_reads(text, i, len, 1))
    /\ iter_i' = i
    /\ pc' = "et_match"
    /\ UNCHANGED << text, stack, stats, i, word_start, word_len, quote,
                    string_chars, adv_vars, q_vars, retval, ps_vars >>

\* if (pattern_len > 0) { stats.tokens++; i += pattern_len; continue; }
EtPattern ==
    /\ pc = "et_match"
    /\ pattern_len > 0
    /\ stats' = [stats EXCEPT !.tokens = @ + 1]
    /\ i' = i + pattern_len
    /\ pc' = "et_loop"
    /\ UNCHANGED << text, stack, pattern_len, word_start, word_len, quote,
                    string_chars, iter_i, maxread, adv_vars, q_vars, retval,
                    ps_vars >>

\* No pattern matched: the character class decides.
NoPattern ==
    /\ pc = "et_match"
    /\ ~(pattern_len > 0)

\* if (isalpha(c)): word_start = i, enter the word loop
EtWordBegin ==
    /\ NoPattern
    /\ isalpha(At(text, i))
    /\ word_start' = i
    /\ pc' = "et_word"
    /\ UNCHANGED << text, stack, stats, i, pattern_len, word_len, quote,
                    string_chars, iter_i, maxread, adv_vars, q_vars, retval,
                    ps_vars >>

EtWordStep ==
    /\ pc = "et_word"
    /\ i < len /\ (isalnum(At(text, i)) \/ At(text, i) = "_")
    /\ Reads({i})
    /\ i' = i + 1
    /\ UNCHANGED << text, pc, stack, stats, pattern_len, word_start, word_len,
                    quote, string_chars, iter_i, adv_vars, q_vars, retval,
                    ps_vars >>

EtWordEnd ==
    /\ pc = "et_word"
    /\ ~(i < len /\ (isalnum(At(text, i)) \/ At(text, i) = "_"))
    /\ Reads(IF i < len THEN {i} ELSE {})
    /\ word_len' = i - word_start
    /\ stats' = [stats EXCEPT !.words = @ + 1,
                              !.tokens = @ + word_tokens(i - word_start)]
    /\ pc' = "et_loop"
    /\ UNCHANGED << text, stack, i, pattern_len, word_start, quote,
                    string_chars, iter_i, adv_vars, q_vars, retval, ps_vars >>

\* else if (isdigit(c)): enter the number loop
EtNumberBegin ==
    /\ NoPattern
    /\ ~isalpha(At(text, i))
    /\ isdigit(At(text, i))
    /\ pc' = "et_num"
    /\ UNCHANGED << text, stack, stats, i, pattern_len, word_start, word_len,
                    quote, string_chars, iter_i, maxread, adv_vars, q_vars,
                    retval, ps_vars >>

EtNumStep ==
    /\ pc = "et_num"
    /\ i < len /\ (isdigit(At(text, i)) \/ At(text, i) = ".")
    /\ Reads({i})
    /\ i' = i + 1
    /\ UNCHANGED << text, pc, stack, stats, pattern_len, word_start, word_len,
                    quote, string_chars, iter_i, adv_vars, q_vars, retval,
                    ps_vars >>

EtNumEnd ==
    /\ pc = "et_num"
    /\ ~(i < len /\ (isdigit(At(text, i)) \/ At(text, i) = "."))
    /\ Reads(IF i < len THEN {i} ELSE {})
    /\ stats' = [stats EXCEPT !.tokens = @ + 1]
    /\ pc' = "et_loop"
    /\ UNCHANGED << text, stack, i, pattern_len, word_start, word_len, quote,
                    string_chars, iter_i, adv_vars, q_vars, retval, ps_vars >>

\* if (c == '"' || c == '\''): the opening quote
EtStringOpen ==
    /\ NoPattern
    /\ ~isalpha(At(text, i))
    /\ ~isdigit(At(text, i))
    /\ At(text, i) \in {"\"", "'"}
    /\ quote' = At(text, i)
    /\ i' = i + 1
    /\ stats' = [stats EXCEPT !.tokens = @ + 1]
    /\ string_chars' = 0
    /\ pc' = "et_str"
    /\ UNCHANGED << text, stack, pattern_len, word_start, word_len, iter_i,
                    maxread, adv_vars, q_vars, retval, ps_vars >>

\* the escaped unit: i += 2; string_chars += 2
EtStrEscape ==
    /\ pc = "et_str"
    /\ i < len /\ At(text, i) # quote
    /\ is_escape(text, i, len)
    /\ Reads({i})
    /\ i' = i + 2
    /\ string_chars' = string_chars + 2
    /\ UNCHANGED << text, pc, stack, stats, pattern_len, word_start, word_len,
                    quote, iter_i, adv_vars, q_vars, retval, ps_vars >>

\* any other character of the string: i++; string_chars++
EtStrChar ==
    /\ pc = "et_str"
    /\ i < len /\ At(text, i) # quote
    /\ ~is_escape(text, i, len)
    /\ Reads({i})
    /\ i' = i + 1
    /\ string_chars' = string_chars + 1
    /\ UNCHANGED << text, pc, stack, stats, pattern_len, word_start, word_len,
                    quote, iter_i, adv_vars, q_vars, retval, ps_vars >>

\* the loop ends: content tokens, then the closing quote if there is one
EtStrEnd ==
    /\ pc = "et_str"
    /\ ~(i < len /\ At(text, i) # quote)
    /\ Reads(IF i < len THEN {i} ELSE {})
    /\ IF i < len
       THEN /\ i' = i + 1
            /\ stats' = [stats EXCEPT
                            !.tokens = @ + string_tokens(string_chars) + 1]
       ELSE /\ i' = i
            /\ stats' = [stats EXCEPT
                            !.tokens = @ + string_tokens(string_chars)]
    /\ pc' = "et_loop"
    /\ UNCHANGED << text, stack, pattern_len, word_start, word_len, quote,
                    string_chars, iter_i, adv_vars, q_vars, retval, ps_vars >>

\* else: regular punctuation
EtPunct ==
    /\ NoPattern
    /\ ~isalpha(At(text, i))
    /\ ~isdigit(At(text, i))
    /\ At(text, i) \notin {"\"", "'"}
    /\ stats' = [stats EXCEPT !.tokens = @ + 1]
    /\ i' = i + 1
    /\ pc' = "et_loop"
    /\ UNCHANGED << text, stack, pattern_len, word_start, word_len, quote,
                    string_chars, iter_i, maxread, adv_vars, q_vars, retval,
                    ps_vars >>

----------------------------------------------------------------------------
(* estimate_tokens_advanced                                                *)

CodeChars == {"{", "}", ";", "(", ")", "[", "]"}

\* A scan bound that also visits the last character.
adv_loop_bound_full(text_len) == text_len

\* for (int i = 0; i < text_len - 1; i++)
adv_loop_bound(text_len) == text_len - 1

\* The test of the loop body at index idx.
is_code_indicator(str, idx) ==
    /\ At(str, idx) \in CodeChars
    /\ (idx = 0 \/ ~isalpha(At(str, idx - 1)))

\* A second test that also takes the boundary value.
looks_like_prose_inclusive(ci, words) == ci <= words \div 20 /\ words > 10

\* if (code_indicators > basic.words / 10)
looks_like_code(ci, words) == ci > words \div 10

\* if (code_indicators < basic.words / 20 && basic.words > 10)
looks_like_prose(ci, words) == ci < words \div 20 /\ words > 10

\* TokenStats basic = estimate_tokens(text);
AdvCallBasic ==
    /\ pc = "adv_entry"
    /\ Call("et_entry", "adv_1")
    /\ UNCHANGED << text, et_vars, adv_vars, q_vars, retval, ps_vars >>

\* float multiplier = 1.0; int code_indicators = 0; the loop begins
AdvInit ==
    /\ pc = "adv_1"
    /\ basic' = stats
    /\ multiplier' = 100
    /\ code_indicators' = 0
    /\ adv_i' = 0
    /\ pc' = "adv_loop"
    /\ UNCHANGED << text, stack, et_vars, q_vars, retval, ps_vars >>

AdvStep ==
    /\ pc = "adv_loop"
    /\ adv_i < adv_loop_bound(strlen(text))
    /\ code_indicators' = IF is_code_indicator(text, adv_i)
                          THEN code_indicators + 1
                          ELSE code_indicators
    /\ adv_i' = adv_i + 1
    /\ UNCHANGED << text, pc, stack, et_vars, basic, multiplier, q_vars,
                    retval, ps_vars >>

AdvLoopExit ==
    /\ pc = "adv_loop"
    /\ ~(adv_i < adv_loop_bound(strlen(text)))
    /\ pc' = "adv_if1"
    /\ UNCHANGED << text, stack, et_vars, adv_vars, q_vars, retval, ps_vars >>

\* the first if statement
AdvIfCode ==
    /\ pc = "adv_if1"
    /\ multiplier' = IF looks_like_code(code_indicators, basic.words)
                     THEN 120
                     ELSE multiplier
    /\ pc' = "adv_if2"
    /\ UNCHANGED << text, stack, et_vars, basic, code_indicators, adv_i,
                    q_vars, retval, ps_vars >>

\* the second if statement
AdvIfProse ==
    /\ pc = "adv_if2"
    /\ multiplier' = IF looks_like_prose(code_indicators, basic.words)
                     THEN 85
                     ELSE multiplier
    /\ pc' = "adv_ret"
    /\ UNCHANGED << text, stack, et_vars, basic, code_indicators, adv_i,
                    q_vars, retval, ps_vars >>

\* return (int)(basic.tokens * multiplier): the float constants 1.2f and
\* 0.85f lie just above 1.2 and 0.85 and the product is rounded to the nearest
\* float, so for the token counts of the model the truncated product is the
\* integer quotient below.
AdvReturn ==
    /\ pc = "adv_ret"
    /\ retval' = (basic.tokens * multiplier) \div 100
    /\ Return
    /\ UNCHANGED << text, et_vars, adv_vars, q_vars, ps_vars >>

----------------------------------------------------------------------------
(* quick_token_estimate                                                    *)

\* A threshold test that also takes the boundary value.
quick_result_inclusive(n, pcount) ==
    IF pcount >= n \div 20 THEN (n + 2) \div 3 ELSE (n + 3) \div 4

\* if (punct_count > len / 20) return (len + 2) / 3; else return (len + 3) / 4;
quick_result(n, pcount) ==
    IF pcount > n \div 20 THEN (n + 2) \div 3 ELSE (n + 3) \div 4

\* int len = strlen(text); if (len == 0) return 0; int punct_count = 0;
QEnter ==
    /\ pc = "q_entry"
    /\ IF len = 0
       THEN /\ retval' = 0
            /\ Return
            /\ UNCHANGED q_vars
       ELSE /\ punct_count' = 0
            /\ q_i' = 0
            /\ pc' = "q_loop"
            /\ UNCHANGED << stack, retval >>
    /\ UNCHANGED << text, et_vars, adv_vars, ps_vars >>

QStep ==
    /\ pc = "q_loop"
    /\ q_i < len
    /\ punct_count' = IF ispunct(At(text, q_i))
                      THEN punct_count + 1
                      ELSE punct_count
    /\ q_i' = q_i + 1
    /\ UNCHANGED << text, pc, stack, et_vars, adv_vars, retval, ps_vars >>

QReturn ==
    /\ pc = "q_loop"
    /\ ~(q_i < len)
    /\ retval' = quick_result(len, punct_count)
    /\ Return
    /\ UNCHANGED << text, et_vars, adv_vars, q_vars, ps_vars >>

----------------------------------------------------------------------------
(* print_stats                                                             *)

\* TokenStats stats = estimate_tokens(text);
PsCallBasic ==
    /\ pc = "ps_entry"
    /\ Call("et_entry", "ps_1")
    /\ UNCHANGED << text, et_vars, adv_vars, q_vars, retval, ps_vars >>

\* int advanced = estimate_tokens_advanced(text);
PsCallAdvanced ==
    /\ pc = "ps_1"
    /\ ps_stats' = stats
    /\ Call("adv_entry", "ps_2")
    /\ UNCHANGED << text, et_vars, adv_vars, q_vars, retval, advanced, quick,
                    ratio >>

\* int quick = quick_token_estimate(text);
PsCallQuick ==
    /\ pc = "ps_2"
    /\ advanced' = retval
    /\ Call("q_entry", "ps_3")
    /\ UNCHANGED << text, et_vars, adv_vars, q_vars, retval, ps_stats, quick,
                    ratio >>

\* The printf calls; the last one divides stats.chars by (float)stats.tokens.
PsPrint ==
    /\ pc = "ps_3"
    /\ quick' = retval
    /\ ratio' = << ps_stats.chars, ps_stats.tokens >>
    /\ Return
    /\ UNCHANGED << text, et_vars, adv_vars, q_vars, retval, ps_stats,
                    advanced >>

----------------------------------------------------------------------------
(* main: one turn of the interactive loop, from the point where fgets has  *)
(* filled the buffer and the newline has been removed.                     *)

\* if (strcmp(input, "quit") == 0) break;
MainQuit ==
    /\ pc = "main_line"
    /\ text = QuitLine
    /\ pc' = "main_exit"
    /\ UNCHANGED << text, stack, et_vars, adv_vars, q_vars, retval, ps_vars >>

\* if (strlen(input) == 0) continue;
MainSkipEmpty ==
    /\ pc = "main_line"
    /\ text # QuitLine
    /\ strlen(text) = 0
    /\ pc' = "main_prompt"
    /\ UNCHANGED << text, stack, et_vars, adv_vars, q_vars, retval, ps_vars >>

\* print_stats("User Input", input);
MainPrintStats ==
    /\ pc = "main_line"
    /\ text # QuitLine
    /\ strlen(text) # 0
    /\ Call("ps_entry", "main_prompt")
    /\ UNCHANGED << text, et_vars, adv_vars, q_vars, retval, ps_vars >>

----------------------------------------------------------------------------
(* The three estimators called directly on a text.                         *)

CallBasic ==
    /\ pc = "call"
    /\ Call("et_entry", "ret_basic")
    /\ UNCHANGED << text, et_vars, adv_vars, q_vars, retval, ps_vars >>

CallAdvanced ==
    /\ pc = "call"
    /\ Call("adv_entry", "ret_advanced")
    /\ UNCHANGED << text, et_vars, adv_vars, q_vars, retval, ps_vars >>

CallQuick ==
    /\ pc = "call"
    /\ Call("q_entry", "ret_quick")
    /\ UNCHANGED << text, et_vars, adv_vars, q_vars, retval, ps_vars >>

----------------------------------------------------------------------------
(* Specifications.                                                         *)

Locals ==
    /\ stack = <<>>
    /\ stats = ZeroStats
    /\ i = 0
    /\ pattern_len = 0
    /\ word_start = 0
    /\ word_len = 0
    /\ quote = NUL
    /\ string_chars = 0
    /\ iter_i = 0
    /\ maxread = -1
    /\ basic = ZeroStats
    /\ multiplier = 100
    /\ code_indicators = 0
    /\ adv_i = 0
    /\ punct_count = 0
    /\ q_i = 0
    /\ retval = 0
    /\ ps_stats = ZeroStats
    /\ advanced = 0
    /\ quick = 0
    /\ ratio = <<>>

\* A caller is about to call one of the estimators on some text.
Init ==
    /\ text \in Inputs
    /\ pc = "call"
    /\ Locals

Next ==
    \/ CallBasic \/ CallAdvanced \/ CallQuick
    \/ EtEnter \/ EtLoopExit
    \/ EtWhitespace \/ EtWsStep \/ EtWsEnd
    \/ EtMatch \/ EtPattern
    \/ EtWordBegin \/ EtWordStep \/ EtWordEnd
    \/ EtNumberBegin \/ EtNumStep \/ EtNumEnd
    \/ EtStringOpen \/ EtStrEscape \/ EtStrChar \/ EtStrEnd
    \/ EtPunct
    \/ AdvCallBasic \/ AdvInit \/ AdvStep \/ AdvLoopExit
    \/ AdvIfCode \/ AdvIfProse \/ AdvReturn
    \/ QEnter \/ QStep \/ QReturn

Spec == Init /\ [][Next]_vars

\* The interactive loop has read a line.
InitMain ==
    /\ text \in Inputs
    /\ pc = "main_line"
    /\ Locals

NextMain ==
    \/ MainQuit \/ MainSkipEmpty \/ MainPrintStats
    \/ PsCallBasic \/ PsCallAdvanced \/ PsCallQuick \/ PsPrint
    \/ EtEnter \/ EtLoopExit
    \/ EtWhitespace \/ EtWsStep \/ EtWsEnd
    \/ EtMatch \/ EtPattern
    \/ EtWordBegin \/ EtWordStep \/ EtWordEnd
    \/ EtNumberBegin \/ EtNumStep \/ EtNumEnd
    \/ EtStringOpen \/ EtStrEscape \/ EtStrChar \/ EtStrEnd
    \/ EtPunct
    \/ AdvCallBasic \/ AdvInit \/ AdvStep \/ AdvLoopExit
    \/ AdvIfCode \/ AdvIfProse \/ AdvReturn
    \/ QEnter \/ QStep \/ QReturn

SpecMain == InitMain /\ [][NextMain]_vars

----------------------------------------------------------------------------
(* Properties.                                                             *)

\* The direct call of estimate_tokens has returned.
BasicReturned == pc = "ret_basic"

Min(S) == CHOOSE m \in S : \A x \in S : m <= x

\* C1: in every state of the scan and at its return, stats.chars is the
\* length of the input, and no step of the scan changes it.
C1_CharsIsLength ==
    /\ [](pc \in ScanPcs \/ BasicReturned => stats.chars = Len(text))
    /\ [][(pc \in ScanPcs) => stats'.chars = stats.chars]_vars

C1_Witness ==
    /\ BasicReturned
    /\ Len(text) = 3
    /\ stats.chars = 3
    /\ stats.tokens = 2

\* A measure of the work the scan has left: four units for each character
\* not yet consumed, plus the rank of the statement within the iteration (an
\* inner loop ranks lowest before its first step and highest after it).
ScanMeasure ==
    4 * (len - i)
    + (IF pc = "et_loop" THEN 3
       ELSE IF pc = "et_match" THEN 2
       ELSE IF i = iter_i THEN 1
       ELSE 4)

\* C2: the scan position stays within 0..len, no index >= len of the text
\* is ever read, every inner-loop step and every main-loop iteration moves i
\* forward, the escape step is taken only when i + 1 < len, every step of the
\* scan lowers a measure that is never negative (so the scan ends), and the
\* scan returns with i = len.
C2_ScanInBounds ==
    /\ [](pc \in ScanPcs =>
            0 <= i /\ i <= len /\ maxread < len /\ ScanMeasure >= 0)
    /\ [](BasicReturned => i = len)
    /\ [][(pc \in ScanPcs) /\ pc' \in ScanPcs =>
            ScanMeasure' < ScanMeasure]_vars
    /\ [][(pc \in ScanPcs \ {"et_loop"}) /\ pc' = "et_loop" =>
            i' > iter_i]_vars
    /\ [][(pc \in {"et_ws", "et_word", "et_num", "et_str"}) /\ pc' = pc =>
            i' > i]_vars
    /\ [][pc = "et_str" /\ pc' = "et_str" /\ i' = i + 2 => i + 1 < len]_vars

\* An unterminated string ending in a backslash has been scanned to the end.
C2_Witness ==
    /\ BasicReturned
    /\ Len(text) = 3
    /\ text[1] = "\""
    /\ text[3] = "\\"
    /\ i = 3
    /\ maxread = 2

\* Table entry k fits in the rest of the text at pos and matches there.
MatchesAt(k, pos) ==
    /\ pos + Len(patterns[k]) <= Len(text)
    /\ \A j \in 1..Len(patterns[k]) : text[pos + j] = patterns[k][j]

\* n is the length of the first entry, in table order, that matches at pos,
\* or 0 when none does.
FirstMatchLength(n, pos) ==
    IF \E k \in 1..num_patterns : MatchesAt(k, pos)
    THEN \E k \in 1..num_patterns :
            /\ MatchesAt(k, pos)
            /\ \A j \in 1..(k - 1) : ~MatchesAt(j, pos)
            /\ n = Len(patterns[k])
    ELSE n = 0

\* C3: symbol matching yields the length of the first matching table entry,
\* which is 1 or 2 and never 3 (the entry slash-star-star is shadowed by
\* slash-star); a match counts one token and advances by that length; the text
\* "()" gives 2 tokens and 0 words.
C3_FirstMatchWins ==
    /\ [](pc = "et_match" =>
            /\ FirstMatchLength(pattern_len, i)
            /\ pattern_len \in {0, 1, 2})
    /\ [][pc = "et_match" /\ pattern_len > 0 =>
            /\ stats'.tokens = stats.tokens + 1
            /\ stats'.words = stats.words
            /\ i' = i + pattern_len]_vars
    /\ [](BasicReturned /\ text = <<"(", ")">> =>
            stats.tokens = 2 /\ stats.words = 0)

\* The scan stands at slash-star-star and has matched two characters.
C3_Witness ==
    /\ pc = "et_match"
    /\ text = <<"/", "*", "*">>
    /\ i = 0
    /\ pattern_len = 2

IsWordChar(c) == c \in Lower \cup Upper \cup Digit \cup {"_"}
IsNumChar(c) == c \in Digit \cup {"."}

\* Positions from..to-1 of the text are a maximal run of characters of class
\* In that starts at `from`.
MaximalRun(In(_), from, to) ==
    /\ from < to
    /\ to <= Len(text)
    /\ \A k \in from..(to - 1) : In(text[k + 1])
    /\ to = Len(text) \/ ~In(text[to + 1])

\* C4: a letter at the scan position starts a word; the word is the maximal
\* run of letters, digits and underscores, counts 1 word, and adds 1 token
\* for a length up to 4, 2 tokens for 5..8 and (length + 3) / 4 beyond; a
\* digit starts a maximal run of digits and dots that adds 1 token, 0 words.
C4_WordAndNumber ==
    /\ [][pc = "et_match" /\ isalpha(At(text, i)) =>
            pc' = "et_word" /\ word_start' = i /\ i' = i /\ stats' = stats]_vars
    /\ [][pc = "et_word" /\ pc' = "et_loop" =>
            LET n == i - word_start
            IN  /\ MaximalRun(IsWordChar, word_start, i)
                /\ i' = i
                /\ stats'.words = stats.words + 1
                /\ n <= 4 => stats'.tokens = stats.tokens + 1
                /\ (5 <= n /\ n <= 8) => stats'.tokens = stats.tokens + 2
                /\ n > 8 => stats'.tokens = stats.tokens + (n + 3) \div 4]_vars
    /\ [][pc = "et_match" /\ isdigit(At(text, i)) =>
            pc' = "et_num" /\ i' = i /\ stats' = stats]_vars
    /\ [][pc = "et_num" /\ pc' = "et_loop" =>
            /\ MaximalRun(IsNumChar, iter_i, i)
            /\ i' = i
            /\ stats'.words = stats.words
            /\ stats'.tokens = stats.tokens + 1]_vars

\* A word of more than 8 characters has been counted.
C4_Witness ==
    /\ BasicReturned
    /\ Len(text) = 10
    /\ word_len = 10
    /\ stats.words = 1
    /\ stats.tokens = 3

\* The number of consecutive backslashes that end just before index j and lie
\* after the opening quote at index open.
BackslashesBefore(open, j) ==
    Cardinality({ k \in (open + 1)..(j - 1) :
                    \A m \in k..(j - 1) : text[m + 1] = "\\" })

\* The indices after the opening quote that hold the same quote character,
\* not escaped.
ClosingQuotes(open) ==
    { j \in (open + 1)..(Len(text) - 1) :
        /\ text[j + 1] = text[open + 1]
        /\ BackslashesBefore(open, j) % 2 = 0 }

\* Where the string opened at index open ends: at its closing quote, or at
\* the end of the text.
StringEnd(open) ==
    IF ClosingQuotes(open) = {} THEN Len(text) ELSE Min(ClosingQuotes(open))

\* C5: a quote at the scan position adds 1 token and opens a string; the
\* string runs to the first unescaped occurrence of the same quote or to the
\* end of the text; with n characters in between it adds (n + 3) / 4 tokens,
\* plus 1 if the closing quote was found, and no word.
C5_QuotedString ==
    /\ [][pc = "et_match" /\ At(text, i) \in {"\"", "'"} =>
            /\ pc' = "et_str"
            /\ i' = i + 1
            /\ stats'.tokens = stats.tokens + 1
            /\ stats'.words = stats.words]_vars
    /\ [][pc = "et_str" /\ pc' = "et_str" => stats' = stats]_vars
    /\ [][pc = "et_str" /\ pc' = "et_loop" =>
            LET end == StringEnd(iter_i)
                n == end - (iter_i + 1)
                c == IF end < Len(text) THEN 1 ELSE 0
            IN  /\ i = end
                /\ string_chars = n
                /\ i' = end + c
                /\ stats'.tokens = stats.tokens + (n + 3) \div 4 + c
                /\ stats'.words = stats.words]_vars

\* A string holding one escaped quote, then closed: 1 + (2 + 3) / 4 + 1.
C5_Witness ==
    /\ BasicReturned
    /\ text = <<"\"", "\\", "\"", "\"">>
    /\ string_chars = 2
    /\ stats.tokens = 3
    /\ stats.words = 0

\* C6: the multiplier is 1.2 if codeIndicators > wordCount / 10, otherwise
\* 0.85 if codeIndicators < wordCount / 20 and wordCount > 10, otherwise 1.0,
\* and the two conditions never hold together.
C6_Multiplier ==
    pc = "adv_ret" =>
        LET ci == code_indicators
            wc == basic.words
        IN  /\ ci >= 0 /\ wc >= 0
            /\ multiplier =
                 IF ci > wc \div 10 THEN 120
                 ELSE IF ci < wc \div 20 /\ wc > 10 THEN 85
                 ELSE 100
            /\ ~(ci > wc \div 10 /\ ci < wc \div 20 /\ wc > 10)

C6_Witness ==
    /\ pc = "adv_ret"
    /\ basic.words = 20
    /\ code_indicators = 0
    /\ multiplier = 85

PunctuationCount == Cardinality({ k \in 1..Len(text) : text[k] \in Punct })

\* C7: the quick estimate is 0 for the empty text, otherwise (length + 2) / 3
\* if the punctuation count exceeds length / 20 and (length + 3) / 4 if not;
\* 100 characters with 10 punctuation marks give 34.
C7_QuickEstimate ==
    pc = "ret_quick" =>
        /\ retval =
             IF Len(text) = 0 THEN 0
             ELSE IF PunctuationCount > Len(text) \div 20
                  THEN (Len(text) + 2) \div 3
                  ELSE (Len(text) + 3) \div 4
        /\ (Len(text) = 100 /\ PunctuationCount = 10) => retval = 34

C7_Witness ==
    /\ pc = "ret_quick"
    /\ Len(text) = 100
    /\ PunctuationCount = 10
    /\ retval = 34

\* C8: whenever print_stats has printed the ratio, its divisor was not zero.
C8_NoZeroDivisor == ratio # <<>> => ratio[2] # 0

\* The text without its last character.
AllButLast == SubSeq(text, 1, Len(text) - 1)

\* The indices of AllButLast that hold a code character not preceded by a
\* letter.
IndicatorPositions ==
    { p \in 1..Len(AllButLast) :
        /\ AllButLast[p] \in {"{", "}", ";", "(", ")", "[", "]"}
        /\ (p = 1 \/ AllButLast[p - 1] \notin Lower \cup Upper) }

\* C9: codeIndicators counts the code characters not preceded by a letter
\* among all characters but the last, so it does not depend on the last
\* character, and is 0 for a text of length 0 or 1.
C9_CodeIndicators ==
    /\ pc = "adv_loop" => adv_i <= Len(AllButLast)
    /\ pc \in {"adv_if1", "adv_if2", "adv_ret"} =>
        /\ code_indicators = Cardinality(IndicatorPositions)
        /\ Len(text) <= 1 => code_indicators = 0

\* The closing parenthesis at the end of "()" is not counted.
C9_Witness ==
    /\ pc = "adv_ret"
    /\ text = <<"(", ")">>
    /\ code_indicators = 1

\* C10: at the head of the main loop and at the return,
\* 0 <= words <= tokens <= i <= chars; the counters never decrease during the
\* scan; the returned token count is 0 exactly for a text of whitespace only.
C10_CounterOrder ==
    /\ [](pc = "et_loop" \/ BasicReturned =>
            /\ 0 <= stats.words
            /\ stats.words <= stats.tokens
            /\ stats.tokens <= i
            /\ i <= stats.chars)
    /\ [][(pc \in ScanPcs) =>
            /\ stats'.tokens >= stats.tokens
            /\ stats'.words >= stats.words]_vars
    /\ [](BasicReturned =>
            (stats.tokens = 0 <=> \A k \in 1..Len(text) : text[k] \in Space))

\* A text of whitespace only has been scanned: no token, though not empty.
C10_Witness ==
    /\ BasicReturned
    /\ Len(text) = 2
    /\ stats.tokens = 0
    /\ stats.words = 0
    /\ i = 2

====
